---- MODULE Spec2Model ----
(***************************************************************************)
(* Model of sway-wallpaper-splitter.py: the Wallpaper widget's event       *)
(* handlers (placement state), the classification made in paintEvent, and  *)
(* main's resize-and-cut after the event loop has returned.                *)
(*                                                                         *)
(* Python floats are modelled as exact rationals with a fixed denominator  *)
(* per quantity:                                                           *)
(*   wp_scale               numerator over ScaleDen                        *)
(*   wpx, wpy, locations,   numerator over OffDen                          *)
(*   results.xoff / yoff                                                   *)
(*   display_scale          the pair [n, d], meaning n / d                 *)
(***************************************************************************)
EXTENDS Integers, Sequences, FiniteSets

VARIABLES
    monitors,         \* Desktop.monitors: sequence of Monitor records
    original_width,   \* Wallpaper.original_width  (img.width())
    original_height,  \* Wallpaper.original_height (img.height())
    display_scale,    \* Wallpaper.display_scale, the rational n / d
    wp_scale,         \* Wallpaper.wp_scale, numerator over ScaleDen
    wp_mode,          \* Wallpaper.wp_mode
    wpx,              \* Wallpaper.wpx, numerator over OffDen
    wpy,              \* Wallpaper.wpy, numerator over OffDen
    starting_loc,     \* Wallpaper.starting_loc: <<>> is None, else <<x, y>>
    last_loc,         \* Wallpaper.last_loc:     <<>> is None, else <<x, y>>
    pixmap,           \* size of the pixmap set by update_pixmap
    pen,              \* pen colour chosen by the last handler when it was
                      \* paintEvent (pen is a local of paintEvent), else "NONE"
    results,          \* the results dict shared by Wallpaper and main
    pc,               \* where main is: "exec", "closed", "exit1", "error", "done"
    crops,            \* rectangle cut and saved for each monitor, by index
    raised,           \* exception raised by the last handler, or "none"
    dragging,         \* history: a left press happened and no left release since
    drag_origin,      \* history: <<wpx, wpy>> at the last left press while every
                      \* move since was made without Shift, else <<>>
    scale_events      \* history: the scroll and right-press events received, kept
                      \* by SpecScaleEvents only

vars == <<monitors, original_width, original_height, display_scale, wp_scale,
          wp_mode, wpx, wpy, starting_loc, last_loc, pixmap, pen, results, pc,
          crops, raised, dragging, drag_origin, scale_events>>

(***************************************************************************)
(* Bounds of the model.                                                    *)
(***************************************************************************)
\* pointer positions delivered by the window system, in widget pixels
MaxPos == 1
\* scroll ticks the scale may go above 1
MaxTicksUp == 1
\* scroll ticks the scale may go below 0
MaxTicksBelow == 1
\* largest x and y of a monitor in the desktop layouts explored
MaxCoord == 2
\* largest width and height of a monitor in the desktop layouts explored
MaxSize == 2
\* scroll and right-press events recorded in scale_events
MaxEvents == 4

(***************************************************************************)
(* Rational arithmetic.                                                    *)
(***************************************************************************)
\* int(n / d) for d > 0: Python's int() truncates toward zero
Trunc(n, d) == IF n >= 0 THEN n \div d ELSE -((-n) \div d)

\* math.ceil(n / d) for d > 0
Ceil(n, d) == -((-n) \div d)

Abs(n) == IF n >= 0 THEN n ELSE -n

\* max() over a non-empty set of integers
Max(S) == CHOOSE v \in S : \A w \in S : w <= v

\* each scroll tick is 0.05 = 1 / ScrollTickDen
ScrollTickDen == 20

\* common denominator of every value wp_scale takes
ScaleDen == ScrollTickDen * original_width * original_height

\* 0.05 as a numerator over ScaleDen
ScrollTick == original_width * original_height

\* common denominator of pointer locations and offsets: x / display_scale
OffDen == display_scale.n

(***************************************************************************)
(* Desktop                                                                 *)
(***************************************************************************)
\* DesktopWidth taken from the widths alone, the positions forgotten
DesktopWidthOfSizes == Max({monitors[i].width : i \in DOMAIN monitors})

DesktopWidth == Max({monitors[i].x + monitors[i].width : i \in DOMAIN monitors})

DesktopHeight == Max({monitors[i].y + monitors[i].height : i \in DOMAIN monitors})

(***************************************************************************)
(* Wallpaper.paintEvent: the colour of the monitor outlines                *)
(***************************************************************************)
\* wpx + original_width * wp_scale < desktop.width, over OffDen * ScaleDen
ShortOfWidth ==
    wpx * ScaleDen + original_width * wp_scale * OffDen
        < DesktopWidth * OffDen * ScaleDen

\* wpy + original_height * wp_scale < desktop.height, over OffDen * ScaleDen
ShortOfHeight ==
    wpy * ScaleDen + original_height * wp_scale * OffDen
        < DesktopHeight * OffDen * ScaleDen

\* PenColor with the zoom test made before the coverage test
PenColorZoomFirst ==
    IF wp_scale > ScaleDen
    THEN "ORANGE"
    ELSE IF wpx > 0 \/ wpy > 0 \/ ShortOfWidth \/ ShortOfHeight
         THEN "RED"
         ELSE "WHITE"

PenColor ==
    IF wpx > 0 \/ wpy > 0 \/ ShortOfWidth \/ ShortOfHeight
    THEN "RED"
    ELSE IF wp_scale > ScaleDen
         THEN "ORANGE"
         ELSE "WHITE"

PaintEvent ==
    /\ pc = "exec"
    /\ pen' = PenColor
    /\ raised' = "none"
    /\ UNCHANGED <<monitors, original_width, original_height, display_scale,
                   wp_scale, wp_mode, wpx, wpy, starting_loc, last_loc, pixmap,
                   results, pc, crops, dragging, drag_origin>>

(***************************************************************************)
(* Wallpaper.update_pixmap                                                 *)
(***************************************************************************)
\* int(original * display_scale * wp_scale) for both dimensions
PixmapSize(scale) ==
    << Trunc(original_width * display_scale.n * scale, display_scale.d * ScaleDen),
       Trunc(original_height * display_scale.n * scale, display_scale.d * ScaleDen) >>

(***************************************************************************)
(* Wallpaper.wheelEvent                                                    *)
(***************************************************************************)
\* ScrolledScale with a delta of 0 taken as a downward tick
ScrolledScaleZeroIsDown(direction) ==
    IF direction > 0 THEN wp_scale + ScrollTick ELSE wp_scale - ScrollTick

ScrolledScale(direction) ==
    LET up == IF direction > 0 THEN wp_scale + ScrollTick ELSE wp_scale
    IN  IF direction < 0 THEN up - ScrollTick ELSE up

\* WheelEvent that also moves the image back to the desktop's origin
WheelEventRecentres(direction) ==
    /\ pc = "exec"
    /\ pen' = "NONE"
    /\ direction > 0 => ScrolledScale(direction) <= ScaleDen + MaxTicksUp * ScrollTick
    /\ direction < 0 => ScrolledScale(direction) >= -(MaxTicksBelow * ScrollTick)
    /\ wp_scale' = ScrolledScale(direction)
    /\ pixmap' = PixmapSize(wp_scale')
    /\ wp_mode' = "FREE"
    /\ raised' = "none"
    /\ wpx' = 0
    /\ wpy' = 0
    /\ UNCHANGED <<monitors, original_width, original_height, display_scale,
                   starting_loc, last_loc, results, pc, crops,
                   dragging, drag_origin>>

WheelEvent(direction) ==
    /\ pc = "exec"
    /\ pen' = "NONE"
    /\ direction > 0 => ScrolledScale(direction) <= ScaleDen + MaxTicksUp * ScrollTick
    /\ direction < 0 => ScrolledScale(direction) >= -(MaxTicksBelow * ScrollTick)
    /\ wp_scale' = ScrolledScale(direction)
    /\ pixmap' = PixmapSize(wp_scale')
    /\ wp_mode' = "FREE"
    /\ raised' = "none"
    /\ UNCHANGED <<monitors, original_width, original_height, display_scale,
                   wpx, wpy, starting_loc, last_loc, results, pc, crops,
                   dragging, drag_origin>>

(***************************************************************************)
(* Wallpaper.mousePressEvent                                               *)
(***************************************************************************)
\* event.position() / display_scale, as numerators over OffDen
Location(pos) == << pos[1] * display_scale.d, pos[2] * display_scale.d >>

\* desktop.width / original_width over ScaleDen
FitWidthScale == DesktopWidth * ScrollTickDen * original_height

\* desktop.height / original_height over ScaleDen
FitHeightScale == DesktopHeight * ScrollTickDen * original_width

\* CycledMode without the WIDTH -> HEIGHT branch
CycledModeSkipsHeight(mode) ==
    IF mode = "ORIGINAL" THEN "WIDTH" ELSE "ORIGINAL"

\* the right-button branch: the mode entered and its scale
CycledMode(mode) ==
    IF mode = "ORIGINAL" THEN "WIDTH"
    ELSE IF mode = "WIDTH" THEN "HEIGHT"
    ELSE "ORIGINAL"

\* CycledScale with the two fit scales exchanged
\* CycledScale that keeps the current scale on the way back to ORIGINAL
CycledScaleKeepsOnReset(mode) ==
    IF mode = "ORIGINAL" THEN FitWidthScale
    ELSE IF mode = "WIDTH" THEN FitHeightScale
    ELSE wp_scale

CycledScaleSwapped(mode) ==
    IF mode = "ORIGINAL" THEN FitHeightScale
    ELSE IF mode = "WIDTH" THEN FitWidthScale
    ELSE ScaleDen

CycledScale(mode) ==
    IF mode = "ORIGINAL" THEN FitWidthScale
    ELSE IF mode = "WIDTH" THEN FitHeightScale
    ELSE ScaleDen

MousePressEvent(button, pos) ==
    /\ pc = "exec"
    /\ pen' = "NONE"
    /\ raised' = "none"
    /\ IF button = "Left"
       THEN /\ starting_loc' = Location(pos)
            /\ last_loc' = starting_loc'
            /\ dragging' = TRUE
            /\ drag_origin' = <<wpx, wpy>>
            /\ UNCHANGED <<wp_mode, wp_scale, pixmap>>
       ELSE IF button = "Right"
       THEN /\ wp_mode' = CycledMode(wp_mode)
            /\ wp_scale' = CycledScale(wp_mode)
            /\ pixmap' = PixmapSize(wp_scale')
            /\ UNCHANGED <<starting_loc, last_loc, dragging, drag_origin>>
       ELSE UNCHANGED <<starting_loc, last_loc, dragging, drag_origin, wp_mode,
                        wp_scale, pixmap>>
    /\ UNCHANGED <<monitors, original_width, original_height, display_scale,
                   wpx, wpy, results, pc, crops>>

(***************************************************************************)
(* Wallpaper.mouseReleaseEvent                                             *)
(***************************************************************************)
\* `event.button == LeftButton` compares the bound method event.button (it is
\* not called) with the enum member: the comparison is False for every event
ReleaseTestsLeft(button) == FALSE

MouseReleaseEvent(button) ==
    /\ pc = "exec"
    /\ pen' = "NONE"
    /\ raised' = "none"
    /\ IF ReleaseTestsLeft(button)
       THEN /\ starting_loc' = <<>>
            /\ last_loc' = <<>>
       ELSE UNCHANGED <<starting_loc, last_loc>>
    /\ dragging' = IF button = "Left" THEN FALSE ELSE dragging
    /\ UNCHANGED <<monitors, original_width, original_height, display_scale,
                   wp_scale, wp_mode, wpx, wpy, pixmap, results, pc, crops,
                   drag_origin>>

(***************************************************************************)
(* Wallpaper.mouseMoveEvent                                                *)
(***************************************************************************)
\* DraggedX with the dominant axis measured from last_loc
DraggedXFromLast(cur, shift) ==
    IF shift
    THEN IF Abs(cur[1] - last_loc[1]) > Abs(cur[2] - last_loc[2])
         THEN wpx + (cur[1] - last_loc[1])
         ELSE wpx
    ELSE wpx + (cur[1] - last_loc[1])

\* the offsets after a move to location cur, with or without Shift held
DraggedX(cur, shift) ==
    IF shift
    THEN IF Abs(cur[1] - starting_loc[1]) > Abs(cur[2] - starting_loc[2])
         THEN wpx + (cur[1] - last_loc[1])
         ELSE wpx
    ELSE wpx + (cur[1] - last_loc[1])

\* DraggedY with the unlocked delta measured from starting_loc
DraggedYFromStart(cur, shift) ==
    IF shift
    THEN IF Abs(cur[1] - starting_loc[1]) > Abs(cur[2] - starting_loc[2])
         THEN wpy
         ELSE wpy + (cur[2] - last_loc[2])
    ELSE wpy + (cur[2] - starting_loc[2])

DraggedY(cur, shift) ==
    IF shift
    THEN IF Abs(cur[1] - starting_loc[1]) > Abs(cur[2] - starting_loc[2])
         THEN wpy
         ELSE wpy + (cur[2] - last_loc[2])
    ELSE wpy + (cur[2] - last_loc[2])

MouseMoveEvent(buttons, pos, shift) ==
    /\ pc = "exec"
    /\ pen' = "NONE"
    /\ IF buttons # "Left"
       THEN /\ raised' = "none"
            /\ UNCHANGED <<wpx, wpy, last_loc, drag_origin>>
       ELSE IF starting_loc = <<>> \/ last_loc = <<>>
       THEN /\ raised' = "RuntimeError"
            /\ UNCHANGED <<wpx, wpy, last_loc, drag_origin>>
       ELSE /\ Abs(DraggedX(Location(pos), shift)) <= MaxPos * display_scale.d
            /\ Abs(DraggedY(Location(pos), shift)) <= MaxPos * display_scale.d
            /\ wpx' = DraggedX(Location(pos), shift)
            /\ wpy' = DraggedY(Location(pos), shift)
            /\ last_loc' = Location(pos)
            /\ raised' = "none"
            /\ drag_origin' = IF shift THEN <<>> ELSE drag_origin
    /\ UNCHANGED <<monitors, original_width, original_height, display_scale,
                   wp_scale, wp_mode, starting_loc, pixmap, results, pc,
                   crops, dragging>>

(***************************************************************************)
(* Wallpaper.keyPressEvent                                                 *)
(***************************************************************************)
\* FinalSize computed from the displayed size, display_scale included
FinalSizeOnDisplay ==
    << Ceil(original_width * display_scale.n * wp_scale, display_scale.d * ScaleDen),
       Ceil(original_height * display_scale.n * wp_scale, display_scale.d * ScaleDen) >>

\* FinalSize with int() in place of math.ceil
FinalSizeTruncated ==
    << Trunc(wp_scale, ScrollTickDen * original_height),
       Trunc(wp_scale, ScrollTickDen * original_width) >>

\* (math.ceil(original_width * wp_scale), math.ceil(original_height * wp_scale))
FinalSize ==
    << Ceil(wp_scale, ScrollTickDen * original_height),
       Ceil(wp_scale, ScrollTickDen * original_width) >>

\* ConfirmKey accepting the space bar only while the desktop is covered
ConfirmKeyWhenCovered(key) == key = "Space" /\ PenColor # "RED"

\* the key test of keyPressEvent: every key but the space bar is ignored
ConfirmKey(key) == key = "Space"

\* KeyPressEvent without self.close(): the results are recorded and the
\* window stays open
KeyPressEventStaysOpen(key) ==
    /\ pc = "exec"
    /\ pen' = "NONE"
    /\ raised' = "none"
    /\ IF ~ConfirmKey(key)
       THEN UNCHANGED results
       ELSE results' = [keys |-> {"size", "xoff", "yoff"},
                        size |-> FinalSize,
                        xoff |-> -wpx,
                        yoff |-> -wpy]
    /\ UNCHANGED <<monitors, original_width, original_height, display_scale,
                   wp_scale, wp_mode, wpx, wpy, starting_loc, last_loc, pixmap,
                   crops, dragging, drag_origin, pc>>

KeyPressEvent(key) ==
    /\ pc = "exec"
    /\ pen' = "NONE"
    /\ raised' = "none"
    /\ IF ~ConfirmKey(key)
       THEN UNCHANGED <<results, pc>>
       ELSE /\ results' = [keys |-> {"size", "xoff", "yoff"},
                           size |-> FinalSize,
                           xoff |-> -wpx,
                           yoff |-> -wpy]
            /\ pc' = "closed"
    /\ UNCHANGED <<monitors, original_width, original_height, display_scale,
                   wp_scale, wp_mode, wpx, wpy, starting_loc, last_loc, pixmap,
                   crops, dragging, drag_origin>>

(***************************************************************************)
(* The user closes the window: app.exec() returns                          *)
(***************************************************************************)
CloseWindow ==
    /\ pc = "exec"
    /\ pen' = "NONE"
    /\ pc' = "closed"
    /\ raised' = "none"
    /\ UNCHANGED <<monitors, original_width, original_height, display_scale,
                   wp_scale, wp_mode, wpx, wpy, starting_loc, last_loc, pixmap,
                   results, crops, dragging, drag_origin>>

(***************************************************************************)
(* Monitor.cut and main after app.exec()                                   *)
(***************************************************************************)
\* Cut with the corner rounded down (math.floor) instead of truncated
CutFloor(m, x, y) ==
    LET left == (m.x * OffDen + x) \div OffDen
        top  == (m.y * OffDen + y) \div OffDen
    IN  << left, top, left + m.width, top + m.height >>

\* the box handed to img.crop; x and y are numerators over OffDen
\* Cut with the offset subtracted from the monitor's origin
CutSubtracts(m, x, y) ==
    LET left == Trunc(m.x * OffDen - x, OffDen)
        top  == Trunc(m.y * OffDen - y, OffDen)
    IN  << left, top, left + m.width, top + m.height >>

Cut(m, x, y) ==
    LET left == Trunc(m.x * OffDen + x, OffDen)
        top  == Trunc(m.y * OffDen + y, OffDen)
    IN  << left, top, left + m.width, top + m.height >>

\* img.resize raises ValueError unless both dimensions are positive
ResizeAccepts(size) == size[1] > 0 /\ size[2] > 0

\* Cancelled without the test: main goes on to the resize
CancelledNever(res) == FALSE

\* "size" not in results: no confirm was handled before the window closed
Cancelled(res) == "size" \notin res.keys

MainAfterExec ==
    /\ pc = "closed"
    /\ IF Cancelled(results)
       THEN /\ pc' = "exit1"
            /\ UNCHANGED <<crops, raised>>
       ELSE IF ~ResizeAccepts(results.size)
       THEN /\ pc' = "error"
            /\ raised' = "ValueError"
            /\ UNCHANGED crops
       ELSE /\ crops' = [i \in DOMAIN monitors |->
                            Cut(monitors[i], results.xoff, results.yoff)]
            /\ pc' = "done"
            /\ UNCHANGED raised
    /\ UNCHANGED <<monitors, original_width, original_height, display_scale,
                   wp_scale, wp_mode, wpx, wpy, starting_loc, last_loc, pixmap,
                   pen, results, dragging, drag_origin>>

(***************************************************************************)
(* The sessions explored: a desktop, an image and a display scale          *)
(***************************************************************************)
Monitor(name, x, y, width, height) ==
    [name |-> name, x |-> x, y |-> y, width |-> width, height |-> height]

Setups ==
    { [monitors |-> << Monitor("A", 0, 0, 2, 2), Monitor("B", 2, 0, 2, 2) >>,
       image |-> <<5, 4>>, display_scale |-> [n |-> 2, d |-> 1]],
      [monitors |-> << Monitor("eDP-1", 0, 0, 2, 1) >>,
       image |-> <<4, 2>>, display_scale |-> [n |-> 1, d |-> 2]] }

\* pointer positions: the pixels within MaxPos of the widget's corner
Positions == { p \in (0 .. MaxPos) \X (0 .. MaxPos) : p[1] + p[2] <= MaxPos }

\* the state when app.exec() starts, for the session s
Start(s) ==
        /\ monitors = s.monitors
        /\ original_width = s.image[1]
        /\ original_height = s.image[2]
        /\ display_scale = s.display_scale
        /\ wp_scale = ScaleDen
        /\ starting_loc = <<>>
        /\ last_loc = <<>>
        /\ pixmap = PixmapSize(ScaleDen)
        /\ wpx = 0
        /\ wpy = 0
        /\ wp_mode = "ORIGINAL"
        /\ pen = "NONE"
        /\ results = [keys |-> {}, size |-> <<0, 0>>, xoff |-> 0, yoff |-> 0]
        /\ pc = "exec"
        /\ crops = <<>>
        /\ raised = "none"
        /\ dragging = FALSE
        /\ drag_origin = <<>>
        /\ scale_events = <<>>

Init == \E s \in Setups : Start(s)

Next ==
    \/ PaintEvent /\ UNCHANGED scale_events
    \/ \E direction \in {-1, 0, 1} : WheelEvent(direction) /\ UNCHANGED scale_events
    \/ \E button \in {"Left", "Right", "Middle"}, pos \in Positions :
           MousePressEvent(button, pos) /\ UNCHANGED scale_events
    \/ \E button \in {"Left", "Right", "Middle"} :
           MouseReleaseEvent(button) /\ UNCHANGED scale_events
    \/ \E buttons \in {"Left", "None"}, pos \in Positions, shift \in BOOLEAN :
           MouseMoveEvent(buttons, pos, shift) /\ UNCHANGED scale_events
    \/ \E key \in {"Space", "Other"} : KeyPressEvent(key) /\ UNCHANGED scale_events
    \/ CloseWindow /\ UNCHANGED scale_events
    \/ MainAfterExec /\ UNCHANGED scale_events

Spec == Init /\ [][Next]_vars

(***************************************************************************)
(* Desktop layouts: one or two monitors placed anywhere, overlapping and   *)
(* non-contiguous ones included, and the handlers that read desktop.width  *)
(* and desktop.height                                                      *)
(***************************************************************************)
Rects == (0 .. MaxCoord) \X (0 .. MaxCoord) \X (1 .. MaxSize) \X (1 .. MaxSize)

Layouts ==
    { << Monitor("M1", a[1], a[2], a[3], a[4]) >> : a \in Rects }
    \cup { << Monitor("M1", a[1], a[2], a[3], a[4]),
              Monitor("M2", b[1], b[2], b[3], b[4]) >> : a \in Rects, b \in Rects }

LayoutSetups ==
    { [monitors |-> l, image |-> <<3, 2>>, display_scale |-> [n |-> 1, d |-> 1]] :
          l \in Layouts }

InitLayouts == \E s \in LayoutSetups : Start(s)

NextLayouts ==
    \/ PaintEvent /\ UNCHANGED scale_events
    \/ \E pos \in Positions : MousePressEvent("Right", pos) /\ UNCHANGED scale_events

SpecLayouts == InitLayouts /\ [][NextLayouts]_vars

(***************************************************************************)
(* Sessions that differ in the display scale (--scale) and receive scroll, *)
(* right-press and space-key events, the events recorded as they arrive    *)
(***************************************************************************)
\* 0.2 is the default of --scale
DisplayScales == { [n |-> 1, d |-> 5], [n |-> 1, d |-> 2], [n |-> 2, d |-> 1] }

InitScaleEvents ==
    \E s \in Setups, ds \in DisplayScales :
        Start([s EXCEPT !.display_scale = ds])

ScrollName(direction) ==
    IF direction > 0 THEN "up" ELSE IF direction < 0 THEN "down" ELSE "zero"

NextScaleEvents ==
    \/ \E direction \in {-1, 0, 1} :
           /\ Len(scale_events) < MaxEvents
           /\ WheelEvent(direction)
           /\ scale_events' = Append(scale_events, ScrollName(direction))
    \/ \E pos \in Positions :
           /\ Len(scale_events) < MaxEvents
           /\ MousePressEvent("Right", pos)
           /\ scale_events' = Append(scale_events, "cycle")
    \/ KeyPressEvent("Space") /\ UNCHANGED scale_events
    \/ MainAfterExec /\ UNCHANGED scale_events

SpecScaleEvents == InitScaleEvents /\ [][NextScaleEvents]_vars

(***************************************************************************)
(* Properties                                                              *)
(***************************************************************************)

\* C1: after any sequence of scroll, drag and mode-cycle events the placement
\* scale is strictly greater than 0.
C1_ScaleStaysPositive == wp_scale > 0

\* the scaled image rectangle contains [0, desktop.width] x [0, desktop.height]
\* on all four edges
ImageContainsDesktop ==
    /\ wpx <= 0
    /\ wpy <= 0
    /\ wpx * ScaleDen + original_width * wp_scale * OffDen
           >= DesktopWidth * OffDen * ScaleDen
    /\ wpy * ScaleDen + original_height * wp_scale * OffDen
           >= DesktopHeight * OffDen * ScaleDen

\* C2: the classification is UNDER_COVERAGE (red) exactly when the image does
\* not contain the desktop rectangle, whatever the scale; otherwise OVER_ZOOM
\* (orange) exactly when scale > 1; otherwise OK (white). So it is OK iff the
\* image contains the desktop on all four edges and scale <= 1.
C2_Classification ==
    /\ pen # "NONE" => pen = PenColor
    /\ PenColor \in {"RED", "ORANGE", "WHITE"}
    /\ PenColor = "RED" <=> ~ImageContainsDesktop
    /\ PenColor = "ORANGE" <=> (ImageContainsDesktop /\ wp_scale > ScaleDen)
    /\ PenColor = "WHITE" <=> (ImageContainsDesktop /\ wp_scale <= ScaleDen)

\* C2 witness: a paint of an under-covering placement that is also zoomed in
\* beyond 1 came out red
C2_Witness ==
    /\ pen = "RED"
    /\ PenColor = "RED"
    /\ wp_scale > ScaleDen

\* the rectangle the specification gives for monitor m, as numerators over
\* OffDen: (m.x + xoff, m.y + yoff, m.x + xoff + m.width, m.y + yoff + m.height)
StatedCrop(m) ==
    << m.x * OffDen + results.xoff,
       m.y * OffDen + results.yoff,
       (m.x + m.width) * OffDen + results.xoff,
       (m.y + m.height) * OffDen + results.yoff >>

\* C3 as stated: at commit every monitor's crop is exactly
\* (m.x + xoff, m.y + yoff, m.x + xoff + m.width, m.y + yoff + m.height).
C3_CropIsStatedRectangle ==
    pc = "done" =>
        \A i \in DOMAIN monitors :
            \A k \in 1 .. 4 : crops[i][k] * OffDen = StatedCrop(monitors[i])[k]

\* c is the rational n / OffDen with its fraction dropped (toward zero)
IsTruncationOf(c, n) ==
    /\ Abs(n - c * OffDen) < OffDen
    /\ Abs(c * OffDen) <= Abs(n)

\* C3 as amended: the crop's left and top are m.x + xoff and m.y + yoff with
\* the fraction dropped toward zero, its right and bottom are left + m.width
\* and top + m.height; with integer offsets this is the stated rectangle, and
\* with scale 1 and offsets 0 it is the monitor's own rectangle.
C3_CropIsTruncatedRectangle ==
    pc = "done" =>
        \A i \in DOMAIN monitors :
            LET m == monitors[i]
                c == crops[i]
            IN  /\ IsTruncationOf(c[1], StatedCrop(m)[1])
                /\ IsTruncationOf(c[2], StatedCrop(m)[2])
                /\ c[3] = c[1] + m.width
                /\ c[4] = c[2] + m.height
                /\ (results.xoff % OffDen = 0 /\ results.yoff % OffDen = 0)
                       => \A k \in 1 .. 4 : c[k] * OffDen = StatedCrop(m)[k]
                /\ (wp_scale = ScaleDen /\ wpx = 0 /\ wpy = 0)
                       => c = << m.x, m.y, m.x + m.width, m.y + m.height >>

\* C3 witness: crops were cut for a placement with a negative fractional crop
\* origin, and for the identity placement
C3_Witness ==
    /\ pc = "done"
    /\ results.xoff < 0
    /\ results.xoff % OffDen # 0
    /\ crops[1][1] = 0

\* C4: if at commit any monitor's crop rectangle falls outside
\* [0, final_width] x [0, final_height], the commit ends in an error and no
\* per-monitor image is produced.
C4_OutOfBoundsCropIsAnError ==
    ( /\ pc \in {"done", "error"}
      /\ \E i \in DOMAIN monitors :
            LET r == StatedCrop(monitors[i])
            IN  \/ r[1] < 0
                \/ r[2] < 0
                \/ r[3] > results.size[1] * OffDen
                \/ r[4] > results.size[2] * OffDen )
    => (pc = "error" /\ crops = <<>>)

\* C5: a right-button press advances the mode ORIGINAL -> WIDTH -> HEIGHT ->
\* ORIGINAL, and the scale after it is the value of the mode entered: 1 for
\* ORIGINAL, desktop.width / original_width for WIDTH, desktop.height /
\* original_height for HEIGHT.
C5_CycleFitMode ==
    [][ (/\ starting_loc' = starting_loc
         /\ \E pos \in Positions : MousePressEvent("Right", pos)) =>
          /\ wp_mode = "ORIGINAL" => wp_mode' = "WIDTH"
          /\ wp_mode = "WIDTH" => wp_mode' = "HEIGHT"
          /\ wp_mode = "HEIGHT" => wp_mode' = "ORIGINAL"
          /\ wp_mode' = "ORIGINAL" => wp_scale' = ScaleDen
          /\ wp_mode' = "WIDTH" => wp_scale' * original_width = DesktopWidth * ScaleDen
          /\ wp_mode' = "HEIGHT" => wp_scale' * original_height = DesktopHeight * ScaleDen
      ]_vars

\* C5 witness: FIT_HEIGHT was entered and its scale differs from FIT_WIDTH's
C5_Witness ==
    /\ wp_mode = "HEIGHT"
    /\ wp_scale * original_height = DesktopHeight * ScaleDen
    /\ wp_scale * original_width # DesktopWidth * ScaleDen

\* the scale after three right-button presses in a row from the current state
ScaleAfterThreeCycles == CycledScale(CycledMode(CycledMode(wp_mode)))

\* C6 as stated: from any reachable state, FREE included, three cycle_fit_mode
\* in a row return scale to the value it had before the first.
C6_ThreeCyclesRestoreScale == pc = "exec" => ScaleAfterThreeCycles = wp_scale

\* C6 as amended: from any reachable state whose mode is ORIGINAL, WIDTH or
\* HEIGHT, three cycle_fit_mode in a row return scale to the value it had
\* before the first, and the mode to the mode it had.
C6_ThreeCyclesRestoreFitScale ==
    (pc = "exec" /\ wp_mode # "FREE") =>
        /\ ScaleAfterThreeCycles = wp_scale
        /\ CycledMode(CycledMode(CycledMode(wp_mode))) = wp_mode

\* C6 witness: a fit mode entered by cycling, whose scale is not 1
C6_Witness ==
    /\ pc = "exec"
    /\ wp_mode = "WIDTH"
    /\ wp_scale # ScaleDen
    /\ ScaleAfterThreeCycles = wp_scale

\* C7: a left-button move with Shift held compares |dx| and |dy| measured from
\* the drag-start point: when |dx| > |dy| only wpx changes, by current.x -
\* last.x; otherwise only wpy changes, by current.y - last.y. In both cases
\* last_loc becomes the current point.
C7_AxisLockedDrag ==
    [][ (/\ starting_loc # <<>>
         /\ last_loc # <<>>
         /\ starting_loc' = starting_loc
         /\ wp_scale' = wp_scale
         /\ wp_mode' = wp_mode) =>
          \A pos \in Positions :
            (last_loc' = Location(pos) /\ MouseMoveEvent("Left", pos, TRUE)) =>
              LET cx == pos[1] * display_scale.d
                  cy == pos[2] * display_scale.d
              IN  /\ Abs(cx - starting_loc[1]) > Abs(cy - starting_loc[2])
                       => (wpx' = wpx + cx - last_loc[1] /\ wpy' = wpy)
                  /\ Abs(cx - starting_loc[1]) <= Abs(cy - starting_loc[2])
                       => (wpy' = wpy + cy - last_loc[2] /\ wpx' = wpx)
                  /\ last_loc' = <<cx, cy>>
      ]_vars

\* C7 witness: an axis-locked move has been made in the current drag, wpx has
\* followed the pointer from the start point and wpy has not: a movement on
\* the y axis was suppressed and never applied
C7_Witness ==
    /\ dragging
    /\ starting_loc # <<>>
    /\ drag_origin = <<>>
    /\ last_loc[1] # starting_loc[1]
    /\ wpx = last_loc[1] - starting_loc[1]
    /\ wpy # last_loc[2] - starting_loc[2]

\* C8: after a left press at p0 and any number of left moves without Shift,
\* the last to pn, the offset is its value at the press plus pn - p0 on both
\* axes.
C8_PlainDragTelescopes ==
    drag_origin # <<>> =>
        /\ wpx = drag_origin[1] + (last_loc[1] - starting_loc[1])
        /\ wpy = drag_origin[2] + (last_loc[2] - starting_loc[2])

\* C8 witness: a plain drag that started from a moved image and has left its
\* start point on the y axis
C8_Witness ==
    /\ drag_origin # <<>>
    /\ drag_origin # <<0, 0>>
    /\ last_loc[2] # starting_loc[2]
    /\ wpy = drag_origin[2] + (last_loc[2] - starting_loc[2])

\* C9: after every left-button release both drag anchors are None until the
\* next left-button press.
C9_ReleaseClearsAnchors ==
    ~dragging => (starting_loc = <<>> /\ last_loc = <<>>)

\* C10: a left-button move that arrives when no drag is in progress raises an
\* error and leaves wpx, wpy, wp_scale and wp_mode unchanged.
C10_MoveWithoutDragIsAnError ==
    [][ (~dragging /\ \E pos \in Positions, shift \in BOOLEAN :
                          MouseMoveEvent("Left", pos, shift)) =>
          /\ raised' = "RuntimeError"
          /\ UNCHANGED <<wpx, wpy, wp_scale, wp_mode>>
      ]_vars


\* C11: a scroll event with delta > 0 adds exactly 0.05 to the scale, with
\* delta < 0 subtracts exactly 0.05, with delta = 0 leaves it unchanged; in
\* all three cases the mode after the event is FREE.
C11_ScrollStep ==
    [][ (/\ wpx' = wpx
         /\ wpy' = wpy
         /\ last_loc' = last_loc
         /\ pc' = pc) =>
          \A direction \in {-1, 0, 1} :
            WheelEvent(direction) =>
              /\ direction > 0 => ScrollTickDen * wp_scale' = ScrollTickDen * wp_scale + ScaleDen
              /\ direction < 0 => ScrollTickDen * wp_scale' = ScrollTickDen * wp_scale - ScaleDen
              /\ direction = 0 => wp_scale' = wp_scale
              /\ wp_mode' = "FREE"
      ]_vars

\* C11 witness: a scroll left the mode FREE with the scale still the FIT_WIDTH
\* value, which is not 1 (a scroll of delta 0, or an up and a down tick)
C11_Witness ==
    /\ wp_mode = "FREE"
    /\ wp_scale * original_width = DesktopWidth * ScaleDen
    /\ wp_scale # ScaleDen

\* C12: on confirm the committed size is (ceil(original_width * scale),
\* ceil(original_height * scale)) and the committed offsets are (-wpx, -wpy),
\* all taken from the placement at the moment of the confirm event.
C12_Finalize ==
    [][ (pc = "exec" /\ pc' = "closed" /\ KeyPressEvent("Space")) =>
          /\ "size" \in results'.keys
          /\ (results'.size[1] - 1) * ScrollTickDen * original_height < wp_scale
          /\ wp_scale <= results'.size[1] * ScrollTickDen * original_height
          /\ (results'.size[2] - 1) * ScrollTickDen * original_width < wp_scale
          /\ wp_scale <= results'.size[2] * ScrollTickDen * original_width
          /\ results'.xoff + wpx = 0
          /\ results'.yoff + wpy = 0
      ]_vars

\* C12 witness: a placement was committed whose scaled width is not a whole
\* number and whose offsets are not 0
C12_Witness ==
    /\ "size" \in results.keys
    /\ wp_scale % (ScrollTickDen * original_height) # 0
    /\ results.xoff # 0
    /\ results.yoff # 0

\* C13: if the window is closed without a confirm event having occurred, the
\* session ends with exit status 1: no resize, no crop, no output file,
\* whatever events came before.
C13_CancelExits1 ==
    /\ ("size" \notin results.keys /\ pc # "exec") => pc \in {"closed", "exit1"}
    /\ "size" \notin results.keys => crops = <<>>
    /\ pc = "exit1" => "size" \notin results.keys

\* C13 witness: the session ended with exit status 1 after scrolls and drags
C13_Witness ==
    /\ pc = "exit1"
    /\ wp_mode = "FREE"
    /\ wpx # 0
    /\ crops = <<>>

\* C14: the confirm action is enabled in every placement state whatever its
\* classification, and records the placement the same way.
C14_ConfirmNeverBlocked ==
    pc = "exec" =>
        ENABLED ( /\ KeyPressEvent("Space")
                  /\ "size" \in results'.keys
                  /\ pc' = "closed" )

\* C14 witness: a placement was committed while it under-covered the desktop
C14_Witness ==
    /\ "size" \in results.keys
    /\ PenColor = "RED"
    /\ wp_scale > ScaleDen


\* the right and bottom edges of the monitors
RightEdges == { monitors[i].x + monitors[i].width : i \in DOMAIN monitors }

BottomEdges == { monitors[i].y + monitors[i].height : i \in DOMAIN monitors }

\* C15: for any layout with at least one monitor the derived width is the
\* largest m.x + m.width and the derived height the largest m.y + m.height:
\* each is one of the monitors' edges and no monitor's edge lies beyond it.
\* The scale of FIT_WIDTH and FIT_HEIGHT is computed from these values.
C15_DesktopExtent ==
    /\ DesktopWidth \in RightEdges
    /\ \A e \in RightEdges : e <= DesktopWidth
    /\ DesktopHeight \in BottomEdges
    /\ \A e \in BottomEdges : e <= DesktopHeight
    /\ wp_mode = "WIDTH" =>
           /\ \E e \in RightEdges : wp_scale * original_width = e * ScaleDen
           /\ \A e \in RightEdges : wp_scale * original_width >= e * ScaleDen
    /\ wp_mode = "HEIGHT" =>
           /\ \E e \in BottomEdges : wp_scale * original_height = e * ScaleDen
           /\ \A e \in BottomEdges : wp_scale * original_height >= e * ScaleDen

\* C15 witness: FIT_WIDTH was entered on a desktop of two monitors with a gap
\* between them, so that the extent is not the sum of the widths
C15_Witness ==
    /\ Len(monitors) = 2
    /\ monitors[1].x + monitors[1].width < monitors[2].x
    /\ monitors[1].width + monitors[2].width < monitors[2].x + monitors[2].width
    /\ wp_mode = "WIDTH"
    /\ wp_scale * original_width = (monitors[2].x + monitors[2].width) * ScaleDen

\* C15 witness of overlap: FIT_HEIGHT on two overlapping monitors
C15_WitnessOverlap ==
    /\ Len(monitors) = 2
    /\ monitors[1].x = monitors[2].x
    /\ monitors[1].y < monitors[2].y
    /\ monitors[2].y < monitors[1].y + monitors[1].height
    /\ wp_mode = "HEIGHT"


\* the scale and mode after the recorded events, computed from the desktop
\* and the image alone: the display scale takes no part
RECURSIVE PlacementAfter(_)
PlacementAfter(events) ==
    IF events = <<>>
    THEN [scale |-> ScaleDen, mode |-> "ORIGINAL"]
    ELSE LET before == PlacementAfter(SubSeq(events, 1, Len(events) - 1))
             e == events[Len(events)]
         IN  IF e = "up" THEN [scale |-> before.scale + ScrollTick, mode |-> "FREE"]
             ELSE IF e = "down" THEN [scale |-> before.scale - ScrollTick, mode |-> "FREE"]
             ELSE IF e = "zero" THEN [scale |-> before.scale, mode |-> "FREE"]
             ELSE IF before.mode = "ORIGINAL"
                  THEN [scale |-> Max(RightEdges) * ScrollTickDen * original_height,
                        mode |-> "WIDTH"]
             ELSE IF before.mode = "WIDTH"
                  THEN [scale |-> Max(BottomEdges) * ScrollTickDen * original_width,
                        mode |-> "HEIGHT"]
             ELSE [scale |-> ScaleDen, mode |-> "ORIGINAL"]

\* C16: the display scale does not affect the final size: in every session
\* the size committed after a sequence of scroll and mode-cycle events is the
\* same function of the desktop, the image and that sequence, whatever the
\* display scale, so two sessions that differ only in display scale and
\* receive the same sequence commit the same size.
C16_SizeIgnoresDisplayScale ==
    "size" \in results.keys =>
        LET scale == PlacementAfter(scale_events).scale
        IN  results.size = << Ceil(scale, ScrollTickDen * original_height),
                              Ceil(scale, ScrollTickDen * original_width) >>

\* C16 witness: a session at the default display scale 0.2 committed a size
\* that is neither the image's own nor the displayed size, after three events
C16_Witness ==
    /\ "size" \in results.keys
    /\ display_scale = [n |-> 1, d |-> 5]
    /\ Len(scale_events) >= 3
    /\ results.size # <<original_width, original_height>>
    /\ results.size # pixmap


\* the placement as the handlers change it
Placement == <<wp_scale, wp_mode, wpx, wpy>>

\* C17: the resize and the crops happen at most once, only after a confirm
\* event and only once the window has closed; after the confirm event no
\* event changes the placement or the committed results, so the crops are
\* computed from the scale and offsets current at the confirm.
C17_CropOnceAfterCommit ==
    [][ /\ "size" \in results.keys => UNCHANGED <<Placement, results>>
        /\ pc' \in {"done", "error"} /\ pc' # pc =>
              /\ pc = "closed"
              /\ "size" \in results.keys
              /\ crops = <<>>
              /\ results = [keys |-> {"size", "xoff", "yoff"},
                            size |-> FinalSize, xoff |-> -wpx, yoff |-> -wpy]
        /\ crops' # crops =>
              /\ pc' = "done"
              /\ pc # "done"
              /\ crops' = [i \in DOMAIN monitors |-> Cut(monitors[i], -wpx, -wpy)]
        /\ pc \in {"done", "error", "exit1"} => UNCHANGED vars
      ]_vars

\* C17 witness: the crops of a scrolled and dragged image have been computed,
\* from the offsets of the confirm
C17_Witness ==
    /\ pc = "done"
    /\ crops # <<>>
    /\ wp_mode = "FREE"
    /\ wpx # 0
    /\ results.xoff = -wpx

\* C18: in every reachable state the mode determines the scale unless it is
\* FREE: ORIGINAL implies scale 1, FIT_WIDTH implies desktop.width /
\* original_width and FIT_HEIGHT implies desktop.height / original_height.
C18_ModeDeterminesScale ==
    /\ wp_mode \in {"ORIGINAL", "WIDTH", "HEIGHT", "FREE"}
    /\ wp_mode = "ORIGINAL" => wp_scale = ScaleDen
    /\ wp_mode = "WIDTH" => wp_scale * original_width = DesktopWidth * ScaleDen
    /\ wp_mode = "HEIGHT" => wp_scale * original_height = DesktopHeight * ScaleDen

\* C18 witness: the mode is back at ORIGINAL with scale 1 in a session whose
\* image has been dragged and whose fit scales both differ from 1
C18_Witness ==
    /\ wp_mode = "ORIGINAL"
    /\ wp_scale = ScaleDen
    /\ FitWidthScale # ScaleDen
    /\ FitHeightScale # ScaleDen
    /\ wpx # 0
    /\ wpy # 0

\* the rectangle lies within [0, size[1]] x [0, size[2]]
CropWithin(crop, size) ==
    /\ 0 <= crop[1] /\ crop[1] <= crop[3] /\ crop[3] <= size[1]
    /\ 0 <= crop[2] /\ crop[2] <= crop[4] /\ crop[4] <= size[2]

\* C19: if at the confirm the image covers the desktop (the pen is not RED)
\* and every monitor has x >= 0 and y >= 0, every monitor's crop rectangle as
\* Monitor.cut computes it lies within [0, final_width] x [0, final_height],
\* also for fractional offsets and a final size rounded up by ceil.
C19_CoveredCropsWithinImage ==
    ( /\ "size" \in results.keys
      /\ PenColor # "RED"
      /\ \A i \in DOMAIN monitors : monitors[i].x >= 0 /\ monitors[i].y >= 0 )
    => /\ \A i \in DOMAIN monitors :
              CropWithin(Cut(monitors[i], results.xoff, results.yoff), results.size)
       /\ pc = "done" =>
              \A i \in DOMAIN monitors : CropWithin(crops[i], results.size)

\* C19 witness: crops were computed for a covering image at a fractional
\* horizontal offset whose final width was rounded up
C19_Witness ==
    /\ pc = "done"
    /\ PenColor # "RED"
    /\ results.xoff % OffDen # 0
    /\ results.size[1] * ScaleDen # original_width * wp_scale
    /\ \A i \in DOMAIN monitors : CropWithin(crops[i], results.size)

\* the step is a scroll or a right-button press
ScaleStep ==
    \/ \E direction \in {-1, 0, 1} : WheelEvent(direction)
    \/ \E pos \in Positions : MousePressEvent("Right", pos)

\* the step is a left-button press, a mouse move or a button release
DragStep ==
    \/ \E pos \in Positions : MousePressEvent("Left", pos)
    \/ \E buttons \in {"Left", "None"}, pos \in Positions, shift \in BOOLEAN :
           MouseMoveEvent(buttons, pos, shift)
    \/ \E button \in {"Left", "Right", "Middle"} : MouseReleaseEvent(button)

\* C20: a scroll and a mode cycle leave the offsets and the drag anchors
\* unchanged; a left press, a move and a release leave the scale and the mode
\* unchanged; no event changes the desktop layout or the image's dimensions.
C20_FrameConditions ==
    [][ /\ UNCHANGED <<monitors, original_width, original_height>>
        /\ UNCHANGED <<wpx, wpy, starting_loc, last_loc>> \/ ~ScaleStep
        /\ UNCHANGED <<wp_scale, wp_mode>> \/ ~DragStep
      ]_vars

\* C20 witness: a scrolled image that has been dragged on both axes, with the
\* drag anchors set
C20_Witness ==
    /\ pc = "exec"
    /\ wp_mode = "FREE"
    /\ wp_scale > ScaleDen
    /\ wpx # 0
    /\ wpy # 0
    /\ starting_loc # <<>>
    /\ last_loc # starting_loc

====
